---- MODULE Spec2Model ----
(***************************************************************************)
(* carla::nav::Navigation (LibCarla/source/carla/nav/Navigation.cpp).      *)
(*                                                                         *)
(* The facade owns a navigation mesh, a query object over it and a crowd   *)
(* of walkers.  The model keeps the facade's fields as variables and has   *)
(* one action per public operation; UpdateCrowd and GetRandomLocation,     *)
(* which take the facade's mutex and loop, are split at their lock and at  *)
(* each loop iteration so that other threads' calls interleave with them.  *)
(*                                                                         *)
(* The Recast/Detour engine behind the facade (dtNavMesh, dtNavMeshQuery,  *)
(* dtCrowd) is not part of the source file.  It is modelled at the calls   *)
(* the facade makes, on an integer grid: a mesh is the list of the tiles   *)
(* added to it, every payload cell of a tile is one polygon, the k-th      *)
(* polygon of a mesh lies at engine point <<k, height, 0>>.                *)
(*                                                                         *)
(* A navmesh buffer is a sequence of cells: the four bytes of the magic,   *)
(* then one cell per integer field (version, numTiles, params; tileRef,    *)
(* dataSize) and one cell per payload unit.                                *)
(***************************************************************************)
EXTENDS Integers, Sequences, FiniteSets, TLC

(***************************************************************************)
(* Bounds of the model.                                                    *)
(***************************************************************************)
\* largest numTiles a header declares, and most tile records in a buffer
MaxTiles == 2
\* largest dataSize of a tile record
MaxData == 2
\* successful Loads in one behaviour
MaxLoads == 2
\* actor identities the host uses
MaxActors == 2
\* capacity of the agent pool (500 in the source, line 21)
MAX_AGENTS == 2
\* largest x coordinate of a location the host passes in
MaxX == 2

(***************************************************************************)
(* The binary format (Navigation.cpp 56-69).                               *)
(***************************************************************************)
Pow2(n) == 2 ^ n

\* 'M'<<24 | 'S'<<16 | 'E'<<8 | 'T'
NAVMESHSET_MAGIC == 77 * Pow2(24) + 83 * Pow2(16) + 69 * Pow2(8) + 84

NAVMESHSET_VERSION == 1

\* the magic as it lies in the buffer (little endian: 'T','E','S','M')
MagicBytes == <<84, 69, 83, 77>>

\* sizeof(NavMeshSetHeader) in cells: magic[4], version, numTiles, params
HeaderSize == Len(MagicBytes) + 3

\* sizeof(NavMeshTileHeader) in cells: tileRef, dataSize
TileHeaderSize == Len(<<"tileRef", "dataSize">>)

\* memcpy(&header, &content[0], sizeof(header)): the int the four magic bytes make
HeaderMagic(content) ==
    content[1] + content[2] * Pow2(8) + content[3] * Pow2(16) + content[4] * Pow2(24)

HeaderVersion(content) == content[5]

HeaderNumTiles(content) == content[6]

\* header.params: 1 when the mesh accepts them, 0 when dtNavMesh::init rejects them
HeaderParams(content) == content[7]

(***************************************************************************)
(* Polygons.  A payload cell c stands for one polygon; its height and flag *)
(* word are read off the cell.  Flag words are sets of flag bits.          *)
(***************************************************************************)
SAMPLE_POLYFLAGS_WALK == {"walk"}

SAMPLE_POLYFLAGS_DISABLED == {"disabled"}

SAMPLE_POLYFLAGS_ALL == {"walk", "swim", "door", "jump", "disabled"}

PolyHeights == <<0, 2, -2>>

PolyFlagWords == <<{"walk"}, {"walk", "disabled"}, {"disabled"}>>

PolyCells == 1 .. (Len(PolyHeights) * Len(PolyFlagWords))

PolyHeight(c) == PolyHeights[((c - 1) % Len(PolyHeights)) + 1]

PolyFlags(c) == PolyFlagWords[((c - 1) \div Len(PolyHeights)) + 1]

\* the cell of a polygon of height h and flag word f
PolyCell(h, f) ==
    CHOOSE c \in PolyCells : PolyHeight(c) = h /\ PolyFlags(c) = f

(***************************************************************************)
(* Navigation::Load(content), lines 71-121: the header gate and the tile   *)
(* loop.  failAt = n > 0 makes the n-th dtAlloc of the call return null;   *)
(* failAt = 0 lets every allocation succeed.                               *)
(***************************************************************************)
RECURSIVE ReadTiles(_, _, _, _, _)
\* the loop of lines 90-121, at iteration i with read position pos (0-based)
ReadTiles(content, i, pos, tiles, failAt) ==
    IF i >= HeaderNumTiles(content)
    THEN [ok |-> TRUE, tiles |-> tiles]
    ELSE \* line 94 reads the tile header before line 96 checks the position; a
         \* read past the end is discarded by that check, so it is made after it
         IF pos + TileHeaderSize >= Len(content)
         THEN [ok |-> FALSE, tiles |-> tiles]
         ELSE LET tileRef  == content[pos + 1]
                  dataSize == content[pos + 2]
                  dataPos  == pos + TileHeaderSize
              IN  IF tileRef = 0 \/ dataSize = 0
                  THEN [ok |-> TRUE, tiles |-> tiles]
                  ELSE IF Len(tiles) + 1 = failAt
                  THEN [ok |-> TRUE, tiles |-> tiles]
                  ELSE IF dataPos + dataSize > Len(content)
                  THEN [ok |-> FALSE, tiles |-> tiles]
                  ELSE ReadTiles(content, i + 1, dataPos + dataSize,
                                 Append(tiles, [ref  |-> tileRef,
                                                data |-> SubSeq(content, dataPos + 1,
                                                                dataPos + dataSize)]),
                                 failAt)

\* Load without its gate on magic and version
LoadParseNoGate(content, failAt) ==
    IF HeaderParams(content) = 0
    THEN [ok |-> FALSE, tiles |-> <<>>]
    ELSE ReadTiles(content, 0, HeaderSize, <<>>, failAt)

\* lines 71-121: what Load decides before it touches the facade.  tiles are the
\* tiles added to the new mesh when the call left the loop
LoadParse(content, failAt) ==
    IF HeaderMagic(content) # NAVMESHSET_MAGIC
       \/ HeaderVersion(content) # NAVMESHSET_VERSION
    THEN [ok |-> FALSE, tiles |-> <<>>]
    ELSE IF HeaderParams(content) = 0
    THEN [ok |-> FALSE, tiles |-> <<>>]
    ELSE ReadTiles(content, 0, HeaderSize, <<>>, failAt)

(***************************************************************************)
(* Coordinates.  The host's (x, y, z) is the engine's (x, z, y).           *)
(***************************************************************************)
\* lines 222-223, 290, 324: float p[3] = { loc.x, loc.z, loc.y }
\* a boundary that hands the host's point to the engine as it is
ToEngineAsIs(loc) == loc

ToEngine(loc) == <<loc[1], loc[3], loc[2]>>

\* lines 255, 453-455: Location(p[0], p[2], p[1])
ToHost(p) == <<p[1], p[3], p[2]>>

Sq(n) == n * n

Abs(n) == IF n < 0 THEN -n ELSE n

\* squared length of b - a
DistSq(a, b) == Sq(b[1] - a[1]) + Sq(b[2] - a[2]) + Sq(b[3] - a[3])

(***************************************************************************)
(* The engine's mesh and query object, at the calls the facade makes.      *)
(***************************************************************************)
RECURSIVE Flatten(_)
\* the payload cells of a list of tiles, in tile order: the mesh's polygons.
\* A polygon's reference is its place in this list (0 is "no polygon")
Flatten(tiles) ==
    IF tiles = <<>> THEN <<>> ELSE Head(tiles).data \o Flatten(Tail(tiles))

PolyRefs(tiles) == 1 .. Len(Flatten(tiles))

PolyPoint(tiles, ref) == <<ref, PolyHeight(Flatten(tiles)[ref]), 0>>

\* dtQueryFilter::passFilter
PassFilter(filter, flags) ==
    /\ (flags \cap filter.inc) # {}
    /\ (flags \cap filter.exc) = {}

\* a dtQueryFilter as constructed: every polygon included, none excluded
NewFilter == [inc |-> SAMPLE_POLYFLAGS_ALL, exc |-> {}]

\* lines 212-216 and 438-442: the filter used when the caller passes none
DefaultFilter ==
    [inc |-> (SAMPLE_POLYFLAGS_ALL \ SAMPLE_POLYFLAGS_DISABLED)
                 \cup (SAMPLE_POLYFLAGS_DISABLED \ SAMPLE_POLYFLAGS_ALL),
     exc |-> {}]

\* line 151: the crowd's filter 0
CrowdFilter == [NewFilter EXCEPT !.exc = SAMPLE_POLYFLAGS_DISABLED]

\* lines 206-209: m_polyPickExt
PolyPickExt == <<2, 4, 2>>

\* dtCrowd::getQueryHalfExtents: (0.6, 0.45, 0.6) for AGENT_RADIUS 0.3, which is
\* less than one grid unit on every axis
CrowdHalfExtents == <<0, 0, 0>>

InBox(center, ext, p) ==
    \A k \in 1 .. 3 : Abs(p[k] - center[k]) <= ext[k]

\* dtNavMeshQuery::findNearestPoly: the reference of the nearest polygon that
\* passes the filter and lies in the box around center, 0 when there is none
FindNearestPoly(tiles, center, ext, filter) ==
    LET near == {r \in PolyRefs(tiles) :
                    /\ PassFilter(filter, PolyFlags(Flatten(tiles)[r]))
                    /\ InBox(center, ext, PolyPoint(tiles, r))}
    IN  IF near = {} THEN 0
        ELSE CHOOSE r \in near :
                \A q \in near :
                    \/ DistSq(center, PolyPoint(tiles, r)) < DistSq(center, PolyPoint(tiles, q))
                    \/ /\ DistSq(center, PolyPoint(tiles, r)) = DistSq(center, PolyPoint(tiles, q))
                       /\ r <= q

\* the first polygon references of the tiles, as offsets into Flatten
RECURSIVE TileBase(_, _)
TileBase(tiles, t) ==
    IF t = 1 THEN 0 ELSE TileBase(tiles, t - 1) + Len(tiles[t - 1].data)

\* dtNavMeshQuery::findRandomPoint: the engine picks a tile at random and a
\* polygon of it that passes the filter; 0 (the call fails) when the mesh has no
\* tile or the picked tile has no such polygon
RandomPointRefs(tiles, filter) ==
    IF tiles = <<>> THEN {0}
    ELSE UNION {
        LET refs == {TileBase(tiles, t) + k : k \in 1 .. Len(tiles[t].data)}
            pass == {r \in refs : PassFilter(filter, PolyFlags(Flatten(tiles)[r]))}
        IN  IF pass = {} THEN {0} ELSE pass
        : t \in 1 .. Len(tiles)}

RECURSIVE Corridor(_, _, _, _)
\* dtNavMeshQuery::findPath on the strip of polygons: from cur towards endRef
\* through neighbours that pass the filter; a partial corridor ends where the
\* next polygon is filtered out
Corridor(tiles, cur, endRef, filter) ==
    IF cur = endRef THEN <<cur>>
    ELSE LET next == IF endRef > cur THEN cur + 1 ELSE cur - 1
         IN  IF PassFilter(filter, PolyFlags(Flatten(tiles)[next]))
             THEN <<cur>> \o Corridor(tiles, next, endRef, filter)
             ELSE <<cur>>

\* dtNavMeshQuery::findStraightPath: the start point, then the end point when it
\* differs.  The call returns a status, which the facade does not read (line
\* 246); when the engine fails it writes no waypoint
FindStraightPath(spos, epos, engineOk) ==
    IF ~engineOk THEN <<>>
    ELSE IF spos = epos THEN <<spos>> ELSE <<spos, epos>>

(***************************************************************************)
(* The engine's crowd (dtCrowd), at the calls the facade makes.  An agent  *)
(* record keeps the fields of dtCrowdAgent the facade reads.               *)
(***************************************************************************)
Slots == 0 .. (MAX_AGENTS - 1)

Origin == <<0, 0, 0>>

\* a slot of the pool as dtCrowd::init leaves it
FreeAgent ==
    [active |-> FALSE, state |-> "INVALID", npos |-> Origin, vel |-> Origin,
     targetState |-> "NONE", targetPos |-> Origin, ncorners |-> 0, corner |-> Origin]

\* _crowd == nullptr
NoCrowd == [mesh |-> 0, tiles |-> <<>>, agents |-> [s \in Slots |-> FreeAgent]]

\* lines 147-151: dtAllocCrowd and init(MAX_AGENTS, AGENT_RADIUS, _navMesh).  The
\* crowd keeps the mesh pointer it was given; tiles is what that pointer showed
NewCrowd(mesh) == [mesh |-> mesh.id, tiles |-> mesh.tiles,
                   agents |-> [s \in Slots |-> FreeAgent]]

\* dtCrowd::addAgent: the first free slot, -1 when the pool is full
FreeSlot(agents) ==
    IF \A s \in Slots : agents[s].active THEN -1
    ELSE CHOOSE s \in Slots :
            /\ ~agents[s].active
            /\ \A q \in Slots : ~agents[q].active => s <= q

\* dtCrowd::addAgent: the agent is put on the nearest polygon of the crowd's
\* mesh (view), or left at pos in state INVALID when there is none
PlacedAgent(view, pos) ==
    LET ref == FindNearestPoly(view, pos, CrowdHalfExtents, CrowdFilter)
    IN  [FreeAgent EXCEPT !.active = TRUE,
                          !.state  = IF ref = 0 THEN "INVALID" ELSE "WALKING",
                          !.npos   = IF ref = 0 THEN pos ELSE PolyPoint(view, ref)]

\* dtCrowd::requestMoveTarget(idx, ref, pos)
RequestMoveTargetOk(idx, ref) == idx >= 0 /\ idx < MAX_AGENTS /\ ref # 0

RequestMoveTarget(agents, idx, ref, pos) ==
    IF RequestMoveTargetOk(idx, ref)
    THEN [agents EXCEPT ![idx].targetPos = pos, ![idx].targetState = "REQUESTING"]
    ELSE agents

Sign(n) == IF n > 0 THEN 1 ELSE IF n < 0 THEN -1 ELSE 0

\* one agent's step: a requested target becomes the planned one, its position is
\* the last corner of the corridor, and the agent moves one polygon towards it
StepAgent(view, ag) ==
    IF ~ag.active \/ ag.state # "WALKING" \/ ag.targetState = "NONE"
    THEN [ag EXCEPT !.vel = Origin]
    ELSE LET dx   == Sign(ag.targetPos[1] - ag.npos[1])
             x    == ag.npos[1] + dx
             next == IF x = ag.targetPos[1] THEN ag.targetPos
                     ELSE IF x \in PolyRefs(view) THEN PolyPoint(view, x)
                     ELSE <<x, ag.npos[2], ag.npos[3]>>
         IN  [ag EXCEPT !.targetState = "VALID",
                        !.ncorners = 1,
                        !.corner = ag.targetPos,
                        !.npos = next,
                        !.vel = <<dx, 0, 0>>]

\* dtCrowd::update(dt, nullptr)
CrowdStep(view, agents) == [s \in Slots |-> StepAgent(view, agents[s])]

(***************************************************************************)
(* What the host passes in.                                                *)
(***************************************************************************)
ActorIds == 1 .. MaxActors

\* host locations (x, y, z): on the strip's axis, at the heights polygons have
HostLocations == {<<x, 0, z>> : x \in 1 .. MaxX, z \in {0, 2}}

BaseOffsets == {1}

\* maxHeight of GetRandomLocation: the sentinel -1, a negative and a positive bound
NoMaxHeight == -1

MaxHeights == {NoMaxHeight, -2, 1}

\* state.GetTimestamp().delta_seconds, in quarters of a second
DeltaSeconds == {1}

\* line 362: the height bound the tick samples under
TickMaxHeight == 1

\* line 359: the squared arrival distance
ArrivalDistSq == 2

\* line 403
RotationSpeed == 4

\* yaw_walkers is not let past this many degrees from 0
MaxYaw == 360

RECURSIVE EncodeTiles(_)
\* tile records as they lie in a buffer: tileRef, dataSize, data
EncodeTiles(recs) ==
    IF recs = <<>> THEN <<>>
    ELSE <<Head(recs).ref, Len(Head(recs).data)>> \o Head(recs).data
            \o EncodeTiles(Tail(recs))

\* a whole buffer: header, then the records
Encode(magic, version, numTiles, params, recs) ==
    magic \o <<version, numTiles, params>> \o EncodeTiles(recs)

\* a magic with byte k changed
FlipMagic(k) == [MagicBytes EXCEPT ![k] = (@ + 1) % 256]

\* the polygons of the host's meshes
Walk0 == PolyCell(0, SAMPLE_POLYFLAGS_WALK)

Walk2 == PolyCell(2, SAMPLE_POLYFLAGS_WALK)

WalkLow == PolyCell(-2, SAMPLE_POLYFLAGS_WALK)

\* a flat strip of three polygons in two tiles
FlatMesh ==
    << [ref |-> 1, data |-> <<Walk0, Walk0>>], [ref |-> 2, data |-> <<Walk0>>] >>

\* a strip wholly above the height bound the tick samples under
HighMesh == << [ref |-> 1, data |-> <<Walk2, Walk2>>] >>

\* a strip with a polygon below every height bound and one above
SteepMesh == << [ref |-> 1, data |-> <<WalkLow, Walk2>>] >>

\* a flat strip of four polygons: long enough for a walker to be out of the
\* arrival threshold of its target after a step
LongMesh ==
    << [ref |-> 1, data |-> <<Walk0, Walk0>>], [ref |-> 2, data |-> <<Walk0, Walk0>>] >>

GoodBuffer(m) == Encode(MagicBytes, NAVMESHSET_VERSION, Len(m), 1, m)

\* what the host hands to Load for a mesh: the buffer well formed, cut short at
\* every length from the header on, and with a wrong magic, version or params
BuffersOf(m) ==
    {SubSeq(GoodBuffer(m), 1, n) : n \in HeaderSize .. Len(GoodBuffer(m))}
    \cup {Encode(FlipMagic(1), NAVMESHSET_VERSION, Len(m), 1, m),
          Encode(MagicBytes, NAVMESHSET_VERSION + 1, Len(m), 1, m),
          Encode(MagicBytes, NAVMESHSET_VERSION, Len(m), 0, m)}

\* the buffers of the walker scenarios and of the query scenario
WalkerBuffers == BuffersOf(FlatMesh) \cup {GoodBuffer(HighMesh)}

\* a walkable polygon that also carries the flag "disabled"
Shut0 == PolyCell(0, SAMPLE_POLYFLAGS_WALK \cup SAMPLE_POLYFLAGS_DISABLED)

\* a strip that ends in a disabled polygon, and a strip of one disabled polygon
ClosedMesh == << [ref |-> 1, data |-> <<Walk0, Shut0>>] >>

ShutMesh == << [ref |-> 1, data |-> <<Shut0>>] >>

QueryBuffers == {GoodBuffer(FlatMesh), GoodBuffer(HighMesh), GoodBuffer(SteepMesh),
                 GoodBuffer(ClosedMesh), GoodBuffer(ShutMesh)}

\* f.open(filename) failed
NoFile == <<>>

\* bytes operator>> skips: std::istream_iterator<uint8_t> reads with skipws set
WhiteSpace == {9, 10, 11, 12, 13, 32}

IsData(b) == b \notin WhiteSpace

\* lines 41-47: the file's bytes as the iterator delivers them
ReadFile(file) == SelectSeq(file, IsData)

(***************************************************************************)
(* The buffers of the loader's own specification: every header, every list *)
(* of records up to the bounds, cut at every length from the header on.    *)
(***************************************************************************)
Magics == {MagicBytes} \cup {FlipMagic(k) : k \in 1 .. Len(MagicBytes)}

Versions == {NAVMESHSET_VERSION, NAVMESHSET_VERSION + 1}

TileRefs == {0, 1}

Payloads == UNION {[1 .. n -> {Walk0}] : n \in 0 .. MaxData}

Records == [ref : TileRefs, data : Payloads]

RecordLists == UNION {[1 .. n -> Records] : n \in 0 .. MaxTiles}

FullBuffers ==
    {Encode(mg, v, k, p, recs) :
        mg \in Magics, v \in Versions, k \in 0 .. MaxTiles, p \in {0, 1},
        recs \in RecordLists}

\* an input of the loader's specification: a buffer and the length it is cut at
IsInput(in) ==
    \E b \in FullBuffers : \E n \in HeaderSize .. Len(b) : in = [full |-> b, len |-> n]

\* the buffer an input stands for: full, cut at len
Content(in) == SubSeq(in.full, 1, in.len)

NoInput == [full |-> <<>>, len |-> 0]

(***************************************************************************)
(* The facade's state.                                                     *)
(***************************************************************************)
VARIABLES
    navMesh,        \* _navMesh: [id, tiles]; id 0 is nullptr, id n the n-th mesh installed
    navQuery,       \* _navQuery: the id of the mesh it was initialised over, 0 for nullptr
    crowd,          \* _crowd: [mesh, tiles, agents]; mesh 0 is nullptr
    binaryMesh,     \* _binaryMesh
    mappedId,       \* _mappedId: actor id -> agent slot
    baseHeight,     \* _baseHeight: actor id -> base offset
    yaw_walkers,    \* yaw_walkers: actor id -> last yaw, in degrees
    delta_seconds,  \* _delta_seconds, in quarters of a second
    mutex,          \* _mutex: "free", or the thread that holds it
    tick,           \* the thread in UpdateCrowd: [pc, i]
    sampler,        \* the thread in GetRandomLocation: [pc, maxHeight, location]
    call,           \* the last public call that returned: [op, ret, out]
    input           \* the buffer under test of the loader's specification

facade == <<navMesh, navQuery, crowd, binaryMesh, mappedId, baseHeight, yaw_walkers>>

threads == <<delta_seconds, mutex, tick, sampler>>

vars == <<navMesh, navQuery, crowd, binaryMesh, mappedId, baseHeight, yaw_walkers,
          delta_seconds, mutex, tick, sampler, call, input>>

NullMesh == [id |-> 0, tiles |-> <<>>]

EmptyMap == <<>>

\* map[k] = v of std::unordered_map
Put(map, k, v) == (k :> v) @@ map

Idle == [pc |-> "idle", i |-> 0]

\* location is the caller's variable the call writes its samples to
NoLocation == <<>>

NotSampling == [pc |-> "idle", maxHeight |-> NoMaxHeight, location |-> NoLocation]

\* lines 29-30, with the members' initialisers
Init ==
    /\ navMesh = NullMesh
    /\ navQuery = 0
    /\ crowd = NoCrowd
    /\ binaryMesh = <<>>
    /\ mappedId = EmptyMap
    /\ baseHeight = EmptyMap
    /\ yaw_walkers = EmptyMap
    /\ delta_seconds = 0
    /\ mutex = "free"
    /\ tick = Idle
    /\ sampler = NotSampling
    /\ call = [op |-> "none", ret |-> FALSE, out |-> <<>>]
    /\ input = NoInput

\* the host calls Load and AddWalker from the thread that drives the tick, so
\* never while a tick is running (spec section 5)
HostQuiet == tick.pc = "idle"

(***************************************************************************)
(* Load                                                                    *)
(***************************************************************************)
\* lines 141-148: CreateCrowd builds a crowd only when there is none
CreateCrowd(mesh) == IF crowd.mesh # 0 THEN crowd ELSE NewCrowd(mesh)

\* lines 123-138: the new mesh replaces the old one
Install(content, tiles) ==
    LET mesh == [id |-> navMesh.id + 1, tiles |-> tiles]
    IN  /\ navMesh' = mesh
        /\ navQuery' = mesh.id
        /\ crowd' = CreateCrowd(mesh)
        /\ binaryMesh' = content
        /\ UNCHANGED <<mappedId, baseHeight, yaw_walkers>>

\* a Load that builds the new mesh in place of the installed one
LoadInPlace(content, failAt) ==
    /\ HostQuiet
    /\ LET r == LoadParse(content, failAt)
       IN  /\ navMesh.id < MaxLoads
           /\ Install(content, r.tiles)
           /\ call' = [op |-> "Load", ret |-> r.ok, out |-> r.tiles]
    /\ UNCHANGED <<threads, input>>

\* lines 55-139: Load(content)
Load(content, failAt) ==
    /\ HostQuiet
    /\ LET r == LoadParse(content, failAt)
       IN  /\ r.ok => navMesh.id < MaxLoads
           /\ IF r.ok THEN Install(content, r.tiles) ELSE UNCHANGED facade
           /\ call' = [op |-> "Load", ret |-> r.ok, out |-> r.tiles]
    /\ UNCHANGED <<threads, input>>

\* Load(content) by the host of the walker scenarios; its allocations succeed
LoadMem == \E content \in WalkerBuffers : Load(content, 0)

\* Load(content) of the simulation scenario: one mesh, before the first tick
LoadOnce ==
    /\ navMesh.id = 0
    /\ \E content \in {GoodBuffer(FlatMesh), GoodBuffer(HighMesh)} : Load(content, 0)

\* Load(content) by the host of the query scenario
LoadQuery == \E content \in QueryBuffers : Load(content, 0)

\* lines 39-52: Load(filename)
LoadFile ==
    \E file \in WalkerBuffers \cup {NoFile} :
        IF file = NoFile
        THEN /\ HostQuiet
             /\ call' = [op |-> "Load", ret |-> FALSE, out |-> <<>>]
             /\ UNCHANGED <<facade, threads, input>>
        ELSE Load(ReadFile(file), 0)

\* the loader's specification: Load of the buffer under test
LoadInput == \E failAt \in 0 .. MaxTiles : Load(Content(input), failAt)

(***************************************************************************)
(* Walkers                                                                 *)
(***************************************************************************)
\* the mesh the crowd's own query object reads.  After a later Load the crowd
\* still points at the released mesh: the read finds either the old mesh's
\* memory as it was or, where the allocator reused it, the new mesh
CrowdViews ==
    IF crowd.mesh = navMesh.id THEN {navMesh.tiles} ELSE {crowd.tiles, navMesh.tiles}

\* an AddWalker that does not look at the index addAgent returns
AddWalkerUnchecked(id, from, base_offset) ==
    /\ HostQuiet
    /\ IF crowd.mesh = 0
       THEN /\ call' = [op |-> "AddWalker", ret |-> FALSE, out |-> <<>>]
            /\ UNCHANGED facade
       ELSE \E view \in CrowdViews :
            LET index == FreeSlot(crowd.agents)
            IN  /\ crowd' = IF index = -1 THEN crowd
                            ELSE [crowd EXCEPT
                                    !.agents[index] = PlacedAgent(view, ToEngine(from))]
                /\ mappedId' = Put(mappedId, id, index)
                /\ baseHeight' = Put(baseHeight, id, base_offset)
                /\ yaw_walkers' = Put(yaw_walkers, id, 0)
                /\ call' = [op |-> "AddWalker", ret |-> TRUE, out |-> <<>>]
                /\ UNCHANGED <<navMesh, navQuery, binaryMesh>>
    /\ UNCHANGED <<threads, input>>

\* lines 262-306
AddWalker(id, from, base_offset) ==
    /\ HostQuiet
    /\ IF crowd.mesh = 0 \/ FreeSlot(crowd.agents) = -1
       THEN /\ call' = [op |-> "AddWalker", ret |-> FALSE, out |-> <<>>]
            /\ UNCHANGED facade
       ELSE \E view \in CrowdViews :
            LET index == FreeSlot(crowd.agents)
            IN  /\ crowd' = [crowd EXCEPT
                                !.agents[index] = PlacedAgent(view, ToEngine(from))]
                /\ mappedId' = Put(mappedId, id, index)
                /\ baseHeight' = Put(baseHeight, id, base_offset)
                /\ yaw_walkers' = Put(yaw_walkers, id, 0)
                /\ call' = [op |-> "AddWalker", ret |-> TRUE, out |-> <<>>]
                /\ UNCHANGED <<navMesh, navQuery, binaryMesh>>
    /\ UNCHANGED <<threads, input>>

\* lines 319-333: the result of SetWalkerTargetIndex and the agents after it
SetWalkerTargetIndex(index, to) ==
    IF index = -1 THEN [ret |-> FALSE, agents |-> crowd.agents]
    ELSE LET pointTo   == ToEngine(to)
             targetRef == FindNearestPoly(navMesh.tiles, pointTo,
                                          CrowdHalfExtents, CrowdFilter)
         IN  IF targetRef = 0 THEN [ret |-> FALSE, agents |-> crowd.agents]
             ELSE [ret    |-> RequestMoveTargetOk(index, targetRef),
                   agents |-> RequestMoveTarget(crowd.agents, index, targetRef, pointTo)]

\* a SetWalkerTarget that looks the identity up with _mappedId[id], which gives
\* an unknown identity the slot 0
SetWalkerTargetInsert(id, to) ==
    LET index == IF id \in DOMAIN mappedId THEN mappedId[id] ELSE 0
        r     == SetWalkerTargetIndex(index, to)
    IN  /\ mappedId' = Put(mappedId, id, index)
        /\ crowd' = [crowd EXCEPT !.agents = r.agents]
        /\ call' = [op |-> "SetWalkerTarget", ret |-> r.ret, out |-> <<>>]
        /\ UNCHANGED <<navMesh, navQuery, binaryMesh, baseHeight, yaw_walkers,
                       threads, input>>

\* lines 309-316
SetWalkerTarget(id, to) ==
    /\ IF id \notin DOMAIN mappedId
       THEN /\ call' = [op |-> "SetWalkerTarget", ret |-> FALSE, out |-> <<>>]
            /\ UNCHANGED crowd
       ELSE LET r == SetWalkerTargetIndex(mappedId[id], to)
            IN  /\ crowd' = [crowd EXCEPT !.agents = r.agents]
                /\ call' = [op |-> "SetWalkerTarget", ret |-> r.ret, out |-> <<>>]
    /\ UNCHANGED <<navMesh, navQuery, binaryMesh, mappedId, baseHeight, yaw_walkers,
                   threads, input>>

\* fmod of <cmath>: the remainder has the sign of a
Fmod(a, b) == IF a >= 0 THEN a % b ELSE -((-a) % b)

\* line 401: atan2f(dvel[2], dvel[0]) in degrees, for a velocity along the strip
AgentYaw(vel) == IF vel[3] = 0 /\ vel[1] < 0 THEN 180 ELSE 0

\* lines 402-404: the yaw GetWalkerTransform returns and stores
NextYaw(yaw, old) ==
    LET shortest_angle == Fmod(yaw - old + 540, 360) - 180
    IN  old + ((shortest_angle * RotationSpeed * delta_seconds) \div 4)

\* lines 369-408.  The vertical coordinate is in hundredths: npos[1] + baseOffset - 0.08
GetWalkerTransform(id) ==
    /\ IF id \notin DOMAIN mappedId
          \/ mappedId[id] = -1
          \/ ~crowd.agents[mappedId[id]].active
       THEN /\ call' = [op |-> "GetWalkerTransform", ret |-> FALSE, out |-> <<>>]
            /\ UNCHANGED yaw_walkers
       ELSE LET agent      == crowd.agents[mappedId[id]]
                baseOffset == IF id \in DOMAIN baseHeight THEN baseHeight[id] ELSE 0
                yaw        == NextYaw(AgentYaw(agent.vel), yaw_walkers[id])
            IN  /\ Abs(yaw) <= MaxYaw
                /\ yaw_walkers' = Put(yaw_walkers, id, yaw)
                /\ call' = [op  |-> "GetWalkerTransform", ret |-> TRUE,
                            out |-> <<agent.npos[1], agent.npos[3],
                                      100 * agent.npos[2] + 100 * baseOffset - 8, yaw>>]
    /\ UNCHANGED <<navMesh, navQuery, crowd, binaryMesh, mappedId, baseHeight,
                   threads, input>>

Isqrt(n) == CHOOSE r \in 0 .. n : r * r <= n /\ n < (r + 1) * (r + 1)

\* lines 410-427
GetWalkerSpeed(id) ==
    /\ IF id \notin DOMAIN mappedId \/ mappedId[id] = -1
       THEN call' = [op |-> "GetWalkerSpeed", ret |-> 0, out |-> <<>>]
       ELSE LET agent == crowd.agents[mappedId[id]]
            IN  call' = [op  |-> "GetWalkerSpeed",
                         ret |-> Isqrt(Sq(agent.vel[1]) + Sq(agent.vel[2]) + Sq(agent.vel[3])),
                         out |-> <<>>]
    /\ UNCHANGED <<facade, threads, input>>

(***************************************************************************)
(* Paths                                                                   *)
(***************************************************************************)
\* line 20: the corridor and the straight path hold at most this many entries
MAX_POLYS == 256

Prefix(seq, n) == SubSeq(seq, 1, IF Len(seq) < n THEN Len(seq) ELSE n)

RECURSIVE MapToHost(_)
\* lines 251-256
MapToHost(points) ==
    IF points = <<>> THEN <<>>
    ELSE <<ToHost(Head(points))>> \o MapToHost(Tail(points))

\* lines 189-259, with filter == nullptr: [ret, path]; path is the caller's vector
\* after the call, which is cleared and filled only on the way to return true
GetPathResult(from, to, engineOk) ==
    LET tiles == navMesh.tiles
        m_spos == ToEngine(from)
        m_epos == ToEngine(to)
        m_startRef == FindNearestPoly(tiles, m_spos, PolyPickExt, DefaultFilter)
        m_endRef == FindNearestPoly(tiles, m_epos, PolyPickExt, DefaultFilter)
        fail == [ret |-> FALSE, path |-> <<>>]
    IN  IF Len(binaryMesh) = 0 THEN fail
        ELSE IF m_startRef = 0 \/ m_endRef = 0 THEN fail
        ELSE LET m_polys == Prefix(Corridor(tiles, m_startRef, m_endRef, DefaultFilter),
                                   MAX_POLYS)
                 last    == m_polys[Len(m_polys)]
                 epos    == IF last # m_endRef THEN PolyPoint(tiles, last) ELSE m_epos
                 m_straightPath == Prefix(FindStraightPath(m_spos, epos, engineOk),
                                          MAX_POLYS)
             IN  IF Len(m_polys) = 0 THEN fail
                 ELSE [ret |-> TRUE, path |-> MapToHost(m_straightPath)]

GetPath(from, to, engineOk) ==
    /\ LET r == GetPathResult(from, to, engineOk)
       IN  call' = [op |-> "GetPath", ret |-> r.ret, out |-> r.path]
    /\ UNCHANGED <<facade, threads, input>>

(***************************************************************************)
(* Random locations                                                        *)
(***************************************************************************)
\* line 456: the loop leaves with this sample
Accepts(maxHeight, location) ==
    \/ maxHeight = NoMaxHeight
    \/ (maxHeight >= 0 /\ location[3] <= maxHeight)

\* lines 449-460, one pass of the loop: the sample drawn (0 when findRandomPoint
\* failed) ends the loop or not
LoopEnds(maxHeight, ref) ==
    /\ ref # 0
    /\ Accepts(maxHeight, ToHost(PolyPoint(navMesh.tiles, ref)))

\* lines 429-430: GetRandomLocation takes the mutex.  The call asserts a query
\* object (line 435), so the host makes it only after a Load
GetRandomLocationLock(maxHeight) ==
    /\ sampler.pc = "idle"
    /\ navQuery # 0
    /\ mutex = "free"
    /\ mutex' = "sampler"
    /\ sampler' = [pc |-> "loop", maxHeight |-> maxHeight, location |-> NoLocation]
    /\ UNCHANGED <<facade, delta_seconds, tick, call, input>>

\* lines 449-462 and the lock_guard's release: one pass of the loop
GetRandomLocationLoop ==
    /\ sampler.pc = "loop"
    /\ \E ref \in RandomPointRefs(navMesh.tiles, DefaultFilter) :
        LET location == IF ref = 0 THEN sampler.location
                        ELSE ToHost(PolyPoint(navMesh.tiles, ref))
        IN  IF LoopEnds(sampler.maxHeight, ref)
            THEN /\ call' = [op |-> "GetRandomLocation", ret |-> TRUE, out |-> location]
                 /\ sampler' = [sampler EXCEPT !.pc = "idle", !.location = location]
                 /\ mutex' = "free"
            ELSE /\ sampler' = [sampler EXCEPT !.location = location]
                 /\ UNCHANGED <<call, mutex>>
    /\ UNCHANGED <<facade, delta_seconds, tick, input>>

(***************************************************************************)
(* The tick                                                                *)
(***************************************************************************)
\* lines 338-340: nothing to update
UpdateCrowdReturn ==
    /\ tick.pc = "idle"
    /\ navMesh.id = 0 \/ crowd.mesh = 0
    /\ UNCHANGED vars

\* line 343
UpdateCrowdLock ==
    /\ tick.pc = "idle"
    /\ navMesh.id # 0 /\ crowd.mesh # 0
    /\ mutex = "free"
    /\ mutex' = "tick"
    /\ tick' = [pc |-> "update", i |-> 0]
    /\ UNCHANGED <<facade, delta_seconds, sampler, call, input>>

\* lines 346-347
UpdateCrowdStep ==
    /\ tick.pc = "update"
    /\ \E dt \in DeltaSeconds, view \in CrowdViews :
        /\ delta_seconds' = dt
        /\ crowd' = [crowd EXCEPT !.agents = CrowdStep(view, crowd.agents)]
    /\ tick' = [pc |-> "scan", i |-> 0]
    /\ UNCHANGED <<navMesh, navQuery, binaryMesh, mappedId, baseHeight, yaw_walkers,
                   mutex, sampler, call, input>>

\* lines 357-359: agent i has arrived.  With no corner the read is of
\* cornerVerts[-3], outside the array: the distance is whatever lies there
Arrived(ag) ==
    IF ag.ncorners = 0 THEN BOOLEAN
    ELSE {DistSq(ag.npos, ag.corner) <= ArrivalDistSq}

\* lines 350-359: the scan looks at agent tick.i, and leaves the tick after the last
UpdateCrowdScan ==
    /\ tick.pc = "scan"
    /\ IF tick.i >= MAX_AGENTS
       THEN /\ tick' = Idle
            /\ mutex' = "free"
       ELSE /\ mutex' = mutex
            /\ IF ~crowd.agents[tick.i].active
               THEN tick' = [tick EXCEPT !.i = @ + 1]
               ELSE \E arrived \in Arrived(crowd.agents[tick.i]) :
                       tick' = IF arrived THEN [tick EXCEPT !.pc = "retarget"]
                               ELSE [tick EXCEPT !.i = @ + 1]
    /\ UNCHANGED <<facade, delta_seconds, sampler, call, input>>

\* lines 360-363: one pass of GetRandomLocationWithoutLock's loop and, when it
\* ends, SetWalkerTargetIndex for agent tick.i
UpdateCrowdRetarget ==
    /\ tick.pc = "retarget"
    /\ \E ref \in RandomPointRefs(navMesh.tiles, DefaultFilter) :
        IF LoopEnds(TickMaxHeight, ref)
        THEN LET location == ToHost(PolyPoint(navMesh.tiles, ref))
             IN  /\ crowd' = [crowd EXCEPT
                                 !.agents = SetWalkerTargetIndex(tick.i, location).agents]
                 /\ tick' = [pc |-> "scan", i |-> tick.i + 1]
        ELSE UNCHANGED <<crowd, tick>>
    /\ UNCHANGED <<navMesh, navQuery, binaryMesh, mappedId, baseHeight, yaw_walkers,
                   delta_seconds, mutex, sampler, call, input>>

UpdateCrowd ==
    \/ UpdateCrowdReturn
    \/ UpdateCrowdLock
    \/ UpdateCrowdStep
    \/ UpdateCrowdScan
    \/ UpdateCrowdRetarget

(***************************************************************************)
(* The specifications                                                      *)
(***************************************************************************)
\* the walker scenario: the host loads meshes, adds walkers, sends them to
\* targets and reads them back
Next ==
    \/ LoadMem
    \/ LoadFile
    \/ \E id \in ActorIds, from \in HostLocations, off \in BaseOffsets :
          AddWalker(id, from, off)
    \/ \E id \in ActorIds, to \in HostLocations : SetWalkerTarget(id, to)
    \/ \E id \in ActorIds : GetWalkerTransform(id)
    \/ \E id \in ActorIds : GetWalkerSpeed(id)

\* the simulation scenario: the host loads one mesh before the simulation begins
\* (spec section 5), adds walkers and drives the tick, while another thread sends
\* walkers to targets
NextTick ==
    \/ LoadOnce
    \/ \E id \in ActorIds, from \in HostLocations, off \in BaseOffsets :
          AddWalker(id, from, off)
    \/ \E id \in ActorIds, to \in HostLocations : SetWalkerTarget(id, to)
    \/ UpdateCrowd

\* the query scenario: the host loads meshes and asks for paths and random
\* locations
NextQuery ==
    \/ LoadQuery
    \/ \E from \in HostLocations, to \in HostLocations, engineOk \in BOOLEAN :
          GetPath(from, to, engineOk)
    \/ \E maxHeight \in MaxHeights : GetRandomLocationLock(maxHeight)
    \/ GetRandomLocationLoop

Spec == Init /\ [][Next]_vars

\* the loader alone, on every buffer up to the bounds
InitLoad ==
    /\ navMesh = NullMesh
    /\ navQuery = 0
    /\ crowd = NoCrowd
    /\ binaryMesh = <<>>
    /\ mappedId = EmptyMap
    /\ baseHeight = EmptyMap
    /\ yaw_walkers = EmptyMap
    /\ delta_seconds = 0
    /\ mutex = "free"
    /\ tick = Idle
    /\ sampler = NotSampling
    /\ call = [op |-> "none", ret |-> FALSE, out |-> <<>>]
    /\ IsInput(input)

NextLoad == LoadInput

SpecLoad == InitLoad /\ [][NextLoad]_vars

SpecQuery == Init /\ [][NextQuery]_vars

SpecTick == Init /\ [][NextTick]_vars

\* SetWalkerTarget as the host of the unattended simulation calls it: to give a
\* walker its first target, before the first step of the crowd
InitialTarget ==
    /\ delta_seconds = 0
    /\ \E id \in ActorIds, to \in HostLocations : SetWalkerTarget(id, to)

\* the unattended simulation: after the walkers have their first targets the
\* host only adds walkers and calls UpdateCrowd, again and again
NextLive ==
    \/ LoadOnce
    \/ \E id \in ActorIds, from \in HostLocations, off \in BaseOffsets :
          AddWalker(id, from, off)
    \/ InitialTarget
    \/ UpdateCrowd

\* the simulation as the actor layer sees it: between the steps of the tick it
\* reads the walkers' transforms and speeds
NextRead ==
    \/ LoadOnce
    \/ \E id \in ActorIds, from \in HostLocations, off \in BaseOffsets :
          AddWalker(id, from, off)
    \/ InitialTarget
    \/ UpdateCrowd
    \/ \E id \in ActorIds : GetWalkerTransform(id)
    \/ \E id \in ActorIds : GetWalkerSpeed(id)

SpecRead == Init /\ [][NextRead]_vars

\* the queries of a host that asks for paths and random locations on the mesh
\* before it adds its first walker
SurveyMesh ==
    /\ mappedId = EmptyMap
    /\ \/ \E from \in HostLocations, to \in HostLocations, engineOk \in BOOLEAN :
             GetPath(from, to, engineOk)
       \/ \E maxHeight \in MaxHeights : GetRandomLocationLock(maxHeight)
       \/ GetRandomLocationLoop

\* every operation that takes or returns a point, on one mesh
NextPoints ==
    \/ LoadOnce
    \/ SurveyMesh
    \/ \E id \in ActorIds, from \in HostLocations, off \in BaseOffsets :
          AddWalker(id, from, off)
    \/ \E id \in ActorIds, to \in HostLocations : SetWalkerTarget(id, to)
    \/ \E id \in ActorIds : GetWalkerTransform(id)

SpecPoints == Init /\ [][NextPoints]_vars

\* the host keeps calling UpdateCrowd, and a call that can take a step takes it
SpecLive == Init /\ [][NextLive]_vars /\ WF_vars(UpdateCrowd)

\* Load(content) by the host of the long strip
LoadLong ==
    /\ navMesh.id = 0
    /\ \E content \in {GoodBuffer(LongMesh), GoodBuffer(HighMesh)} : Load(content, 0)

\* the unattended simulation on the long strip
NextScan ==
    \/ LoadLong
    \/ \E id \in ActorIds, from \in HostLocations, off \in BaseOffsets :
          AddWalker(id, from, off)
    \/ InitialTarget
    \/ UpdateCrowd

SpecScan == Init /\ [][NextScan]_vars /\ WF_vars(UpdateCrowd)

(***************************************************************************)
(* The loader's claims, under SpecLoad: Load has been applied to the       *)
(* buffer under test when call.op = "Load".                                *)
(***************************************************************************)
RECURSIVE RecStart(_, _)
\* the offset at which tile record i (from 0) of a buffer starts, by the sizes
\* the records before it declare
RecStart(buf, i) ==
    IF i = 0 THEN HeaderSize
    ELSE RecStart(buf, i - 1) + TileHeaderSize + buf[RecStart(buf, i - 1) + 2]

RECURSIVE CountRecs(_, _)
\* the whole tile records a buffer holds from offset pos on
CountRecs(buf, pos) ==
    IF pos + TileHeaderSize <= Len(buf) /\ pos + TileHeaderSize + buf[pos + 2] <= Len(buf)
    THEN 1 + CountRecs(buf, pos + TileHeaderSize + buf[pos + 2])
    ELSE 0

RecRef(buf, i) == buf[RecStart(buf, i) + 1]

RecSize(buf, i) == buf[RecStart(buf, i) + 2]

\* record i is a tile: neither its reference nor its data size is zero
IsTile(buf, i) == RecRef(buf, i) # 0 /\ RecSize(buf, i) # 0

\* the first n records of a buffer as the tiles addTile is given
TilesOf(buf, n) ==
    [t \in 1 .. n |->
        [ref  |-> RecRef(buf, t - 1),
         data |-> SubSeq(buf, RecStart(buf, t - 1) + TileHeaderSize + 1,
                         RecStart(buf, t))]]

GoodHeader(buf) ==
    /\ SubSeq(buf, 1, Len(MagicBytes)) = MagicBytes
    /\ HeaderVersion(buf) = NAVMESHSET_VERSION

Loaded == call.op = "Load"

\* C1: a buffer with a good header that declares k tiles, cut strictly before
\* the declared end of tile record i < k (the records up to i being tiles),
\* makes Load return failure
C1_TruncatedLoadFails ==
    (Loaded /\ GoodHeader(input.full)) =>
        \A i \in 0 .. (HeaderNumTiles(input.full) - 1) :
            (/\ i < CountRecs(input.full, HeaderSize)
             /\ \A j \in 0 .. i : IsTile(input.full, j)
             /\ input.len < RecStart(input.full, i + 1))
            => call.ret = FALSE

\* C2: a buffer whose magic differs from 'MSET' in some byte, or whose version
\* is not 1, makes Load fail with no tile added and nothing installed
C2_MagicVersionGate ==
    (Loaded /\ ~GoodHeader(input.full)) =>
        /\ call.ret = FALSE
        /\ call.out = <<>>
        /\ navMesh = NullMesh /\ navQuery = 0 /\ crowd = NoCrowd /\ binaryMesh = <<>>

\* C2's case: Load was applied to a buffer with one byte of the magic changed
\* whose tiles it would have added had the magic been right
C2_Witness ==
    /\ Loaded
    /\ SubSeq(input.full, 1, Len(MagicBytes)) # MagicBytes
    /\ HeaderVersion(input.full) = NAVMESHSET_VERSION
    /\ Len(LoadParseNoGate(Content(input), 0).tiles) = MaxTiles

\* C4: a buffer that declares k tiles and holds j < k tiles followed by a record
\* with tileRef 0 or dataSize 0 loads, with exactly the j tiles, whatever
\* follows that record and also when nothing follows it
C4_TerminatorEndsLoad ==
    (Loaded /\ GoodHeader(input.full) /\ HeaderParams(input.full) # 0) =>
        \A j \in 0 .. (HeaderNumTiles(input.full) - 1) :
            (/\ j < CountRecs(input.full, HeaderSize)
             /\ \A t \in 0 .. (j - 1) : IsTile(input.full, t)
             /\ ~IsTile(input.full, j)
             /\ RecStart(input.full, j) + TileHeaderSize <= input.len)
            => (call.ret = TRUE /\ navMesh.tiles = TilesOf(input.full, j))

(***************************************************************************)
(* The walker facade's claims, under Spec.                                 *)
(***************************************************************************)
\* C3: a Load that returns failure leaves the mesh, the query object, the
\* crowd, the stored buffer and the walker maps as they were before the call
C3_FailedLoadKeepsFacade ==
    [][(call'.op = "Load" /\ call'.ret = FALSE) => UNCHANGED facade]_vars

\* C3's case: a Load failed after it had added a tile to its new mesh, while an
\* earlier mesh was installed and a walker registered
C3_Witness ==
    /\ call.op = "Load" /\ call.ret = FALSE /\ call.out # <<>>
    /\ navMesh.id >= 1 /\ binaryMesh # <<>>
    /\ mappedId # EmptyMap

AllActive == \A s \in Slots : crowd.agents[s].active

\* C6: once every slot of the pool holds an added walker, AddWalker returns
\* failure and changes neither the three maps nor any agent
C6_FullPoolRejects ==
    [][(call'.op = "AddWalker" /\ crowd.mesh # 0 /\ AllActive)
        => (call'.ret = FALSE /\ UNCHANGED facade)]_vars

\* C6's case: AddWalker failed on a full pool whose walkers are still mapped
C6_Witness ==
    /\ call.op = "AddWalker" /\ call.ret = FALSE
    /\ crowd.mesh # 0 /\ AllActive
    /\ \A s \in Slots : \E id \in DOMAIN mappedId : mappedId[id] = s

\* C7: for an identity no successful AddWalker was given, SetWalkerTarget and
\* GetWalkerTransform return false, GetWalkerSpeed returns 0, and none of them
\* changes a map or an agent
C7_UnknownIdentity ==
    [][\A id \in ActorIds : id \notin DOMAIN mappedId =>
        /\ (\E to \in HostLocations : SetWalkerTarget(id, to))
              => (call'.ret = FALSE /\ UNCHANGED facade)
        /\ GetWalkerTransform(id) => (call'.ret = FALSE /\ UNCHANGED facade)
        /\ GetWalkerSpeed(id) => (call'.ret = 0 /\ UNCHANGED facade)]_vars

\* C7's case: GetWalkerTransform has just failed although a walker is
\* registered and active, so the identity asked for was the unknown one
C7_Witness ==
    /\ call.op = "GetWalkerTransform" /\ call.ret = FALSE
    /\ Cardinality(DOMAIN mappedId) = 1
    /\ \A id \in DOMAIN mappedId : crowd.agents[mappedId[id]].active

(***************************************************************************)
(* The tick's claims, under SpecTick.                                      *)
(***************************************************************************)
\* C5: between the start of a tick's step and the end of its arrival scan, that
\* is while the tick holds the mutex, no SetWalkerTarget call reads or writes
\* the crowd
C5_TickExcludesSetWalkerTarget ==
    [][mutex = "tick" =>
        ~(\E id \in DOMAIN mappedId, to \in HostLocations :
              SetWalkerTarget(id, to) /\ crowd' # crowd)]_vars

(***************************************************************************)
(* The queries' claims, under SpecQuery.                                   *)
(***************************************************************************)
\* the bound admits the sample last written to the caller's location
Admitted ==
    /\ sampler.location # NoLocation
    /\ sampler.maxHeight = NoMaxHeight \/ sampler.location[3] <= sampler.maxHeight

\* C9: GetRandomLocation returns as soon as a sample is admitted, the first
\* sample when no bound is given and a sample at or below the bound otherwise,
\* negative bounds included, and a point returned under a bound is at or below it
C9_ReturnsFirstAdmittedSample ==
    /\ sampler.pc = "loop" => ~Admitted
    /\ (sampler.pc = "idle" /\ sampler.location # NoLocation
            /\ sampler.maxHeight # NoMaxHeight)
          => sampler.location[3] <= sampler.maxHeight

\* C10: a GetPath that returns success returns at least one waypoint
C10_SuccessHasWaypoint ==
    (call.op = "GetPath" /\ call.ret = TRUE) => Len(call.out) >= 1

(***************************************************************************)
(* The unattended simulation's claim, under SpecLive.                      *)
(***************************************************************************)
\* the walker in slot s stands on the mesh and has been given a target
HasTarget(s) ==
    /\ crowd.agents[s].active
    /\ crowd.agents[s].state = "WALKING"
    /\ crowd.agents[s].targetState # "NONE"

\* the tick found the walker in slot s within the arrival threshold
ArrivedAt(s) == tick.pc = "retarget" /\ tick.i = s

\* C8: with the host calling UpdateCrowd again and again, a walker that has a
\* target is eventually found within the arrival threshold, UpdateCrowd then
\* gives it a new target and goes on to the next slot, this repeats forever, and
\* the walker's slot stays active
C8_ArrivalRetargets ==
    /\ \A s \in Slots :
          /\ HasTarget(s) ~> ArrivedAt(s)
          /\ ArrivedAt(s) ~> (tick.pc = "scan" /\ tick.i = s + 1)
    /\ [][\A s \in Slots : crowd.agents[s].active => crowd'.agents[s].active]_vars

\* the polygon carries the flag "disabled"
Disabled(tiles, ref) == SAMPLE_POLYFLAGS_DISABLED \subseteq PolyFlags(Flatten(tiles)[ref])

\* the polygons within GetPath's pick extents of a host location
Nearby(tiles, loc) ==
    {r \in PolyRefs(tiles) : InBox(ToEngine(loc), PolyPickExt, PolyPoint(tiles, r))}

\* C11: under the filter GetPath builds when it is given none, no polygon with
\* the flag "disabled" is the start polygon, the end polygon or a member of the
\* corridor, a query with only disabled polygons nearby fails, and that filter
\* passes the same polygons of the mesh as the crowd's filter 0
C11_DefaultFilterRejectsDisabled ==
    [][\A from \in HostLocations, to \in HostLocations, engineOk \in BOOLEAN :
        GetPath(from, to, engineOk) =>
            LET tiles    == navMesh.tiles
                startRef == FindNearestPoly(tiles, ToEngine(from), PolyPickExt, DefaultFilter)
                endRef   == FindNearestPoly(tiles, ToEngine(to), PolyPickExt, DefaultFilter)
            IN  /\ startRef # 0 => ~Disabled(tiles, startRef)
                /\ endRef # 0 => ~Disabled(tiles, endRef)
                /\ call'.ret =>
                      LET polys == Corridor(tiles, startRef, endRef, DefaultFilter)
                      IN  \A k \in 1 .. Len(polys) : ~Disabled(tiles, polys[k])
                /\ (Nearby(tiles, from) # {}
                      /\ \A r \in Nearby(tiles, from) : Disabled(tiles, r))
                      => call'.ret = FALSE
                /\ \A r \in PolyRefs(tiles) :
                      PassFilter(DefaultFilter, PolyFlags(Flatten(tiles)[r]))
                          = PassFilter(CrowdFilter, PolyFlags(Flatten(tiles)[r]))]_vars

(***************************************************************************)
(* Reloading, under Spec.                                                  *)
(***************************************************************************)
\* C12: a Load that succeeds while a mesh, a query object and a crowd exist
\* installs a new mesh and a new query object and leaves the facade with a
\* crowd built in this Load, that is over the new mesh
C12_ReloadReplacesCrowd ==
    [][(call'.op = "Load" /\ call'.ret = TRUE /\ navMesh.id # 0 /\ crowd.mesh # 0)
        => /\ navMesh'.id # navMesh.id
           /\ navQuery' = navMesh'.id
           /\ crowd'.mesh = navMesh'.id]_vars

(***************************************************************************)
(* The accessors, under SpecRead.                                          *)
(***************************************************************************)
\* C13: for every identity GetWalkerTransform and GetWalkerSpeed leave the
\* identity map, the base offsets, the last headings and every agent unchanged
C13_AccessorsReadOnly ==
    [][\A id \in ActorIds :
        (GetWalkerTransform(id) \/ GetWalkerSpeed(id))
            => UNCHANGED <<mappedId, baseHeight, yaw_walkers, crowd>>]_vars

(***************************************************************************)
(* The points that cross the boundary, under SpecPoints.                   *)
(***************************************************************************)
\* the point with its second and third components exchanged
Swapped(p) == <<p[1], p[3], p[2]>>

\* the points of the engine's mesh
MeshPoints == {PolyPoint(navMesh.tiles, r) : r \in PolyRefs(navMesh.tiles)}

\* the points AddWalker, SetWalkerTarget and GetPath take reach the engine
\* swapped, and the points GetPath and GetRandomLocation return are engine
\* points swapped
SwapsAtBoundary ==
    /\ (call'.op = "AddWalker" /\ call'.ret = TRUE) =>
          \A id \in ActorIds, from \in HostLocations, off \in BaseOffsets :
              AddWalker(id, from, off)
                  => crowd'.agents[mappedId'[id]].npos = Swapped(from)
    /\ (call'.op = "SetWalkerTarget" /\ call'.ret = TRUE) =>
          \A id \in ActorIds, to \in HostLocations :
              SetWalkerTarget(id, to)
                  => crowd'.agents[mappedId[id]].targetPos = Swapped(to)
    /\ (call'.op = "GetPath" /\ call'.ret = TRUE) =>
          \A from \in HostLocations, to \in HostLocations, engineOk \in BOOLEAN :
              GetPath(from, to, engineOk)
                  => \A k \in 1 .. Len(call'.out) :
                        /\ k = 1 => call'.out[k] = from
                        /\ k # 1 => Swapped(call'.out[k]) \in MeshPoints \cup {Swapped(to)}
    /\ (sampler.pc = "loop" /\ sampler'.pc = "idle" /\ GetRandomLocationLoop)
          => Swapped(call'.out) \in MeshPoints

\* the transform's location is the agent's position swapped, and nothing else
TransformSwapsOnly(id) ==
    LET npos == crowd.agents[mappedId[id]].npos
    IN  <<call'.out[1], call'.out[2], call'.out[3]>>
            = <<npos[1], npos[3], 100 * npos[2]>>

\* the transform's location is the agent's position swapped, with the vertical
\* coordinate raised by the walker's base offset less 0.08 (in hundredths)
TransformSwapsAndLifts(id) ==
    LET npos == crowd.agents[mappedId[id]].npos
    IN  <<call'.out[1], call'.out[2], call'.out[3]>>
            = <<npos[1], npos[3], 100 * npos[2] + 100 * baseHeight[id] - 8>>

WithinThreshold(ag) ==
    ag.ncorners >= 1 /\ DistSq(ag.npos, ag.corner) <= ArrivalDistSq

\* the agent has a planned corridor whose last corner is farther away
BeyondThreshold(ag) ==
    ag.ncorners >= 1 /\ DistSq(ag.npos, ag.corner) > ArrivalDistSq

\* the scan is looking at the agent in slot s
ScanAt(s) == tick.pc = "scan" /\ tick.i = s

\* the tick has given the agent in slot s a new target and gone on
RetargetIssued(s) ==
    /\ tick.pc = "scan" /\ tick.i = s + 1
    /\ crowd.agents[s].targetState = "REQUESTING"
    /\ crowd.agents[s].targetPos \in MeshPoints

\* C15: in the scan after a step, an active agent within the arrival threshold
\* of the last corner of its corridor is given a freshly sampled target in that
\* tick, and an agent farther away or inactive is passed over with its target
\* kept
C15_ArrivedAgentsRetargeted ==
    /\ \A s \in Slots :
          (ScanAt(s) /\ crowd.agents[s].active /\ WithinThreshold(crowd.agents[s]))
              ~> RetargetIssued(s)
    /\ [][\A s \in Slots :
            (ScanAt(s) /\ UpdateCrowdScan
                /\ (~crowd.agents[s].active \/ BeyondThreshold(crowd.agents[s])))
              => (tick' = [tick EXCEPT !.i = s + 1] /\ crowd' = crowd)]_vars

\* C16: with the host calling UpdateCrowd again and again, a tick that has taken
\* the lock runs to its end and releases it, whatever the surface
C16_TickReleasesLock == (mutex = "tick") ~> (mutex = "free")

(***************************************************************************)
(* Allocation failure in the loader, under SpecLoad.                       *)
(***************************************************************************)
\* C17: a Load in which the allocation of a tile's payload fails returns
\* failure: a Load that returns success has installed every tile the same
\* buffer gives when no allocation fails
C17_AllocFailureFailsLoad ==
    (Loaded /\ call.ret = TRUE) =>
        /\ LoadParse(Content(input), 0).ok
        /\ navMesh.tiles = LoadParse(Content(input), 0).tiles

(***************************************************************************)
(* The walker maps and the crowd, under Spec.                              *)
(***************************************************************************)
\* the slots of the pool that hold an agent
Occupied == {s \in Slots : crowd.agents[s].active}

\* C18: after any AddWalker calls each walker has exactly one slot: different
\* identities are mapped to different slots, every mapped slot is active, and
\* there are as many occupied slots as registered identities
C18_OneSlotPerWalker ==
    /\ \A a, b \in DOMAIN mappedId : a # b => mappedId[a] # mappedId[b]
    /\ \A a \in DOMAIN mappedId : mappedId[a] \in Occupied
    /\ Cardinality(Occupied) = Cardinality(DOMAIN mappedId)

\* C19: whenever a crowd exists, the mesh it was initialised against is the
\* mesh that is installed now
C19_CrowdOnInstalledMesh == crowd.mesh # 0 => crowd.mesh = navMesh.id

(***************************************************************************)
(* The corner the arrival scan reads, under SpecTick.                      *)
(***************************************************************************)
\* line 357: the index of the corner read, cornerVerts[(ag->ncorners - 1) * 3]
CornerIndex(ag) == ag.ncorners - 1

\* C20: every corner the arrival scan reads for an active agent is one of the
\* agent's corners: its index is in 0 .. ncorners - 1, and never -1
C20_CornerReadInRange ==
    [][(UpdateCrowdScan /\ tick.i < MAX_AGENTS /\ crowd.agents[tick.i].active)
        => CornerIndex(crowd.agents[tick.i])
              \in 0 .. (crowd.agents[tick.i].ncorners - 1)]_vars

====
